---- MODULE Spec2Model ----
(***************************************************************************)
(* The price-history charting and statistics helpers of the Stride         *)
(* frontend (frontend/src/utils/helpers.ts, frontend/src/hooks).           *)
(*                                                                         *)
(* JavaScript values are modelled as follows.                              *)
(*   - A timestamp string is a record [valid, day, ms]: the ISO-8601 text  *)
(*     of the UTC instant `ms` milliseconds into day `day` (days counted   *)
(*     from 1970-01-01), or, with valid = FALSE, a text that new Date()    *)
(*     cannot parse.                                                       *)
(*   - A Date is a record [valid, time]: its time value in milliseconds,   *)
(*     or the Invalid Date.                                                *)
(*   - An optional property is a sequence: <<>> when absent, <<v>> when    *)
(*     set.                                                                *)
(*   - A Map and the own properties of an object are sequences of          *)
(*     [key, value] entries in insertion order.                            *)
(*   - A number is a record [kind, num, den]: the exact rational num/den   *)
(*     in lowest terms with den > 0 (kind "finite"), or one of the IEEE    *)
(*     values "Infinity", "-Infinity", "NaN".  These are used where the    *)
(*     prices are integers.  Where rounding matters, a number is a         *)
(*     binary64 value [kind, neg, sig, exp] and every operation rounds to  *)
(*     nearest, ties to even.                                              *)
(*   - A call's outcome is a record [called, threw, value].                *)
(***************************************************************************)
EXTENDS Integers, Sequences, FiniteSets, TLC

VARIABLES
    pricePoints,   \* PricePoint[]: the sample list handed to the helpers
    sneakers,      \* Sneaker[]: the entity list handed to the chart helpers
    sneaker,       \* Sneaker: the entity handed to calculateStats
    chartData,     \* outcome of the last transformPriceData(pricePoints, sneakers)
    hookData,      \* outcome of the last useChartData(pricePoints, sneakers)
    stats,         \* outcome of the last calculateStats(sneaker, pricePoints)
    chartView,     \* what the last PriceChart render returned
    colorIndex,    \* the index getChartColor was last called with
    color,         \* what that call returned, '' before any call
    fetchedSneakers,   \* useSneakers: the sneaker list SWR holds (<<>> until it arrives)
    sneakersRequest,   \* useSneakers: "idle", "loading", "loaded" or "failed"
    selectedSneakers,  \* useSelection: the option values (sneaker ids) selected, in order
    priceCache,        \* usePriceHistory: SWR's data per key (a list of selected ids)
    priceInFlight,     \* usePriceHistory: the keys with a request in flight
    isInitializing,    \* App: useState(false)
    initMessage,       \* App: useState('')
    initPending,       \* the initializeData() promises that have not settled
    initOutcome        \* how the initializeData() promise of the last run settled:
                       \* "none" until it does, then "fulfilled" or "rejected"

\* The state of handleInitialize and its button.
initVars == <<isInitializing, initMessage, initPending, initOutcome>>

\* The state of the App component and its hooks.
appVars ==
    <<fetchedSneakers, sneakersRequest, selectedSneakers, priceCache, priceInFlight, initVars>>

colorVars == <<colorIndex, color>>

vars ==
    <<pricePoints, sneakers, sneaker, chartData, hookData, stats, chartView, colorVars, appVars>>

---------------------------------------------------------------------------
(* Bounds and input domains *)

\* Longest sample list drawn.
MaxPoints == 3

\* The number of sneakers offered where the selection limit is exercised.
NumOptions == 6

\* App never passes more than this many selected sneakers.
MAX_SELECTED_SNEAKERS == 5

MsPerHour == 3600000
MsPerDay == 86400000

Iso(day, ms) == [valid |-> TRUE, day |-> day, ms |-> ms]
InvalidTimestamp == [valid |-> FALSE, day |-> 0, ms |-> 0]

\* 02:00Z and 23:00Z of one day, and midnight of the next.
ChartTimestamps == {Iso(0, 2 * MsPerHour), Iso(0, 23 * MsPerHour), Iso(1, 0)}
ChartPrices == {100, 110}
SneakerIds == {1, 2}

SeqsUpTo(S, n) == UNION {[1..k -> S] : k \in 0..n}

Range(s) == {s[i] : i \in DOMAIN s}

\* types.ts PricePoint
PricePoint(ts, price, id) == [timestamp |-> ts, price |-> price, sneaker_id |-> id]

\* Sneaker 1 is sampled at either price, sneaker 2 at the lower one.
ChartPoints ==
    {PricePoint(ts, p, 1) : ts \in ChartTimestamps, p \in ChartPrices}
        \cup {PricePoint(ts, 100, 2) : ts \in ChartTimestamps}

\* sku is UNIQUE in the sneaker table: one text per sneaker_id (0 is no sneaker's id).
Skus == <<"SKU-0", "SKU-1", "SKU-2", "SKU-3", "SKU-4", "SKU-5", "SKU-6", "SKU-7">>

\* types.ts Sneaker (brand and retailer fields are not read by the helpers)
Sneaker(id, name, colorway, price, optional) ==
    [sneaker_id |-> id, name |-> name, sku |-> Skus[id + 1], colorway |-> colorway,
     price |-> price, release_date |-> IF optional THEN <<"2024-01-01">> ELSE <<>>,
     available_sizes |-> IF optional THEN <<"8,9,10">> ELSE <<>>,
     ratings |-> IF optional THEN <<4>> ELSE <<>>]

\* Sneaker 2 comes without a colorway, or with the name and colorway of sneaker 1.
ChartSneakers ==
    {Sneaker(1, "Air", <<"Red">>, 100, TRUE),
     Sneaker(2, "Zoom", <<>>, 120, FALSE),
     Sneaker(2, "Air", <<"Red">>, 120, TRUE)}

\* sneaker_id is the primary key of the sneaker table: no id occurs twice in a list.
DistinctIds(list) == \A i, j \in DOMAIN list : list[i].sneaker_id = list[j].sneaker_id => i = j

EntityLists == {l \in SeqsUpTo(ChartSneakers, MAX_SELECTED_SNEAKERS) : DistinctIds(l)}

---------------------------------------------------------------------------
(* Date *)

\* new Date(timestamp)
NewDate(ts) ==
    IF ts.valid THEN [valid |-> TRUE, time |-> ts.day * MsPerDay + ts.ms]
    ELSE [valid |-> FALSE, time |-> 0]

\* Mutant: date.setHours(0, 0, 0, 0) in a zone two hours ahead of UTC.
SetLocalHoursZero(date) ==
    IF date.valid
    THEN [date EXCEPT !.time = date.time - ((date.time + 2 * MsPerHour) % MsPerDay)]
    ELSE date

\* date.setUTCHours(0, 0, 0, 0)
SetUTCHoursZero(date) ==
    IF date.valid THEN [date EXCEPT !.time = date.time - (date.time % MsPerDay)]
    ELSE date

\* date.toISOString() of a valid date
ToISOString(date) == Iso(date.time \div MsPerDay, date.time % MsPerDay)

\* The value of a call that returned v, and of one that threw.
Returned(v) == [called |-> TRUE, threw |-> FALSE, value |-> v]
Threw == [called |-> TRUE, threw |-> TRUE, value |-> <<>>]
NotCalled == [called |-> FALSE, threw |-> FALSE, value |-> <<>>]

\* toISOString throws a RangeError on the Invalid Date.
normalizeTimestamp(timestamp) ==
    LET date == SetUTCHoursZero(NewDate(timestamp))
    IN  IF date.valid THEN Returned(ToISOString(date)) ELSE Threw

---------------------------------------------------------------------------
(* Map and object properties, in insertion order *)

MapHas(m, k) == \E i \in DOMAIN m : m[i].key = k

MapIndex(m, k) == CHOOSE i \in DOMAIN m : m[i].key = k

MapGet(m, k) == m[MapIndex(m, k)].value

\* set() on a present key replaces the value where the entry stands.
MapSet(m, k, v) ==
    IF MapHas(m, k) THEN [m EXCEPT ![MapIndex(m, k)].value = v]
    ELSE Append(m, [key |-> k, value |-> v])

MapKeys(m) == {m[i].key : i \in DOMAIN m}

---------------------------------------------------------------------------
(* transformPriceData *)

\* Mutant: a price already stored for the sneaker and day is kept.
GroupPointKeepFirst(grouped, point, normalizedTimestamp) ==
    LET withDay == IF MapHas(grouped, normalizedTimestamp) THEN grouped
                   ELSE MapSet(grouped, normalizedTimestamp, <<>>)
        priceMap == MapGet(withDay, normalizedTimestamp)
    IN  IF MapHas(priceMap, point.sneaker_id) THEN withDay
        ELSE MapSet(withDay, normalizedTimestamp,
                    MapSet(priceMap, point.sneaker_id, point.price))

\* One pass of pricePoints.forEach: the entry of the point's day gets the point's price.
GroupPoint(grouped, point, normalizedTimestamp) ==
    LET withDay == IF MapHas(grouped, normalizedTimestamp) THEN grouped
                   ELSE MapSet(grouped, normalizedTimestamp, <<>>)
    IN  MapSet(withDay, normalizedTimestamp,
               MapSet(MapGet(withDay, normalizedTimestamp), point.sneaker_id, point.price))

\* Mutant: the points are taken from the last to the first.
RECURSIVE GroupPricePointsReversed(_, _)
GroupPricePointsReversed(points, grouped) ==
    IF points = <<>> THEN Returned(grouped)
    ELSE LET last == points[Len(points)]
             n == normalizeTimestamp(last.timestamp)
         IN  IF n.threw THEN Threw
             ELSE GroupPricePointsReversed(SubSeq(points, 1, Len(points) - 1),
                                           GroupPoint(grouped, last, n.value))

RECURSIVE GroupPricePoints(_, _)
GroupPricePoints(points, grouped) ==
    IF points = <<>> THEN Returned(grouped)
    ELSE LET n == normalizeTimestamp(Head(points).timestamp)
         IN  IF n.threw THEN Threw
             ELSE GroupPricePoints(Tail(points), GroupPoint(grouped, Head(points), n.value))

\* sneakers.find((s) => s.sneaker_id === sneakerId): <<>> when there is none
FindSneaker(list, sneakerId) ==
    IF \E i \in DOMAIN list : list[i].sneaker_id = sneakerId
    THEN <<list[CHOOSE i \in DOMAIN list :
                  /\ list[i].sneaker_id = sneakerId
                  /\ \A j \in 1..(i - 1) : list[j].sneaker_id # sneakerId]>>
    ELSE <<>>

\* `${sneaker.name} - ${sneaker.colorway}`: an absent colorway prints as undefined
SeriesKey(s) == s.name \o " - " \o (IF s.colorway = <<>> THEN "undefined" ELSE s.colorway[1])

\* Mutant: a price whose sneaker is not found is kept under a key of its own.
RECURSIVE AddPricesUnknown(_, _, _)
AddPricesUnknown(series, priceMap, list) ==
    IF priceMap = <<>> THEN series
    ELSE LET found == FindSneaker(list, Head(priceMap).key)
             key == IF found # <<>> THEN SeriesKey(found[1]) ELSE "Unknown"
         IN  AddPricesUnknown(MapSet(series, key, Head(priceMap).value), Tail(priceMap), list)

RECURSIVE AddPrices(_, _, _)
AddPrices(series, priceMap, list) ==
    IF priceMap = <<>> THEN series
    ELSE LET found == FindSneaker(list, Head(priceMap).key)
             next == IF found # <<>>
                     THEN MapSet(series, SeriesKey(found[1]), Head(priceMap).value)
                     ELSE series
         IN  AddPrices(next, Tail(priceMap), list)

\* Mutant: a listed sneaker without a price that day is charted at its retail price.
RECURSIVE FillMissing(_, _)
FillMissing(series, list) ==
    IF list = <<>> THEN series
    ELSE FillMissing(IF MapHas(series, SeriesKey(Head(list))) THEN series
                     ELSE MapSet(series, SeriesKey(Head(list)), Head(list).price),
                     Tail(list))

DataPointFilled(entry, list) ==
    [timestamp |-> NewDate(entry.key),
     series |-> FillMissing(AddPrices(<<>>, entry.value, list), list)]

\* A ChartData object: its timestamp and its other own properties.
DataPoint(entry, list) ==
    [timestamp |-> NewDate(entry.key), series |-> AddPrices(<<>>, entry.value, list)]

\* Mutant: a day whose prices all belong to unlisted sneakers gets no row.
BuildChartDataNonEmpty(grouped, list) ==
    LET all == [i \in DOMAIN grouped |-> DataPoint(grouped[i], list)]
    IN  SelectSeq(all, LAMBDA row : row.series # <<>>)

BuildChartData(grouped, list) == [i \in DOMAIN grouped |-> DataPoint(grouped[i], list)]

\* a.timestamp.getTime() - b.timestamp.getTime()
CompareRows(a, b) == a.timestamp.time - b.timestamp.time

RECURSIVE InsertRow(_, _)
InsertRow(sorted, row) ==
    IF sorted = <<>> THEN <<row>>
    ELSE IF CompareRows(sorted[Len(sorted)], row) <= 0 THEN Append(sorted, row)
    ELSE Append(InsertRow(SubSeq(sorted, 1, Len(sorted) - 1), row), sorted[Len(sorted)])

RECURSIVE SortRowsFrom(_, _)
SortRowsFrom(sorted, rest) ==
    IF rest = <<>> THEN sorted
    ELSE SortRowsFrom(InsertRow(sorted, Head(rest)), Tail(rest))

\* Mutant: the rows stay in the order the days were first seen.
SortRowsUnsorted(rows) == rows

\* Array.prototype.sort with CompareRows: stable
SortRows(rows) == SortRowsFrom(<<>>, rows)

\* Mutant: no early return on an empty argument.
transformPriceDataUnguarded(points, list) ==
    LET grouped == GroupPricePoints(points, <<>>)
    IN  IF grouped.threw THEN Threw
        ELSE Returned(SortRows(BuildChartData(grouped.value, list)))

transformPriceData(points, list) ==
    IF Len(points) = 0 \/ Len(list) = 0 THEN Returned(<<>>)
    ELSE LET grouped == GroupPricePoints(points, <<>>)
         IN  IF grouped.threw THEN Threw
             ELSE Returned(SortRows(BuildChartData(grouped.value, list)))

\* useChartData: the memoised value is recomputed from the same two arguments
useChartData(priceHistory, list) ==
    IF Len(priceHistory) = 0 \/ Len(list) = 0 THEN Returned(<<>>)
    ELSE transformPriceData(priceHistory, list)

---------------------------------------------------------------------------
(* Numbers *)

Abs(n) == IF n < 0 THEN -n ELSE n

RECURSIVE Gcd(_, _)
Gcd(a, b) == IF b = 0 THEN a ELSE Gcd(b, a % b)

Finite(num, den) == [kind |-> "finite", num |-> num, den |-> den]
NonFinite(kind) == [kind |-> kind, num |-> 0, den |-> 1]
Num(n) == Finite(n, 1)

\* The rational a / b (b # 0), in lowest terms with a positive denominator.
Ratio(a, b) ==
    LET g == Gcd(Abs(a), Abs(b))
        sign == IF b < 0 THEN -1 ELSE 1
    IN  Finite(sign * (a \div g), sign * (b \div g))

\* a / b of two integers; x / 0 is Infinity, -Infinity or NaN
Divide(a, b) ==
    IF b # 0 THEN Ratio(a, b)
    ELSE IF a > 0 THEN NonFinite("Infinity")
    ELSE IF a < 0 THEN NonFinite("-Infinity")
    ELSE NonFinite("NaN")

\* x * n for an integer n > 0
Times(x, n) == IF x.kind = "finite" THEN Ratio(x.num * n, x.den) ELSE x

---------------------------------------------------------------------------
(* Numbers with their binary64 rounding *)

\* A JavaScript number has a significand of 53 binary digits.
SignificandBits == 53

\* The digits of the naturals below hold 15 binary digits each, so that the product of
\* two digits is an integer TLC can hold.
LimbBits == 15
LimbBase == 2 ^ LimbBits

\* A natural number beyond TLC's integers: its digits to the base LimbBase, least
\* significant first, without leading zeros.
RECURSIVE NatOf(_)
NatOf(n) == IF n = 0 THEN <<>> ELSE <<n % LimbBase>> \o NatOf(n \div LimbBase)

RECURSIVE NatTrim(_)
NatTrim(a) ==
    IF a = <<>> THEN <<>>
    ELSE IF a[Len(a)] = 0 THEN NatTrim(SubSeq(a, 1, Len(a) - 1)) ELSE a

LimbAt(a, i) == IF i \in DOMAIN a THEN a[i] ELSE 0

RECURSIVE NatAddFrom(_, _, _, _)
NatAddFrom(a, b, i, carry) ==
    IF i > Len(a) /\ i > Len(b)
    THEN IF carry = 0 THEN <<>> ELSE <<carry>>
    ELSE LET t == LimbAt(a, i) + LimbAt(b, i) + carry
         IN  <<t % LimbBase>> \o NatAddFrom(a, b, i + 1, t \div LimbBase)

NatAdd(a, b) == NatAddFrom(a, b, 1, 0)

\* a - b for a >= b
RECURSIVE NatSubFrom(_, _, _, _)
NatSubFrom(a, b, i, borrow) ==
    IF i > Len(a) THEN <<>>
    ELSE LET t == LimbAt(a, i) - LimbAt(b, i) - borrow
         IN  <<t % LimbBase>> \o NatSubFrom(a, b, i + 1, IF t < 0 THEN 1 ELSE 0)

NatSub(a, b) == NatTrim(NatSubFrom(a, b, 1, 0))

RECURSIVE NatLessFrom(_, _, _)
NatLessFrom(a, b, i) ==
    IF i = 0 THEN FALSE
    ELSE IF a[i] # b[i] THEN a[i] < b[i]
    ELSE NatLessFrom(a, b, i - 1)

NatLess(a, b) == IF Len(a) # Len(b) THEN Len(a) < Len(b) ELSE NatLessFrom(a, b, Len(a))

\* a * m for 0 <= m < LimbBase
RECURSIVE NatTimesLimbFrom(_, _, _, _)
NatTimesLimbFrom(a, m, i, carry) ==
    IF i > Len(a) THEN IF carry = 0 THEN <<>> ELSE <<carry>>
    ELSE LET t == a[i] * m + carry
         IN  <<t % LimbBase>> \o NatTimesLimbFrom(a, m, i + 1, t \div LimbBase)

NatTimesLimb(a, m) == NatTrim(NatTimesLimbFrom(a, m, 1, 0))

\* a * LimbBase^k
NatShiftLimbs(a, k) == IF a = <<>> THEN <<>> ELSE [i \in 1..k |-> 0] \o a

RECURSIVE NatTimesFrom(_, _, _)
NatTimesFrom(a, b, i) ==
    IF i > Len(b) THEN <<>>
    ELSE NatAdd(NatShiftLimbs(NatTimesLimb(a, b[i]), i - 1), NatTimesFrom(a, b, i + 1))

NatTimes(a, b) == NatTimesFrom(a, b, 1)

\* The greatest q with q >= low, q < low + 2^bits and q * b <= r, given low * b <= r
RECURSIVE QuotientDigit(_, _, _, _)
QuotientDigit(r, b, low, bits) ==
    IF bits = 0 THEN low
    ELSE LET try == low + 2 ^ (bits - 1)
         IN  IF NatLess(r, NatTimesLimb(b, try))
             THEN QuotientDigit(r, b, low, bits - 1)
             ELSE QuotientDigit(r, b, try, bits - 1)

\* Long division of a by b # 0, from digit i of a down: [quotient, remainder]
RECURSIVE NatDivideFrom(_, _, _, _, _)
NatDivideFrom(a, b, i, remainder, quotient) ==
    IF i = 0 THEN [quotient |-> NatTrim(quotient), remainder |-> remainder]
    ELSE LET r == NatTrim(<<a[i]>> \o remainder)
             q == QuotientDigit(r, b, 0, LimbBits)
         IN  NatDivideFrom(a, b, i - 1, NatSub(r, NatTimesLimb(b, q)), <<q>> \o quotient)

NatDivide(a, b) == NatDivideFrom(a, b, Len(a), <<>>, <<>>)

NatPow2(k) == NatShiftLimbs(<<2 ^ (k % LimbBits)>>, k \div LimbBits)

\* The number of binary digits of n < LimbBase, and of a
RECURSIVE LimbLength(_)
LimbLength(n) == IF n = 0 THEN 0 ELSE 1 + LimbLength(n \div 2)

BitLength(a) == IF a = <<>> THEN 0 ELSE LimbBits * (Len(a) - 1) + LimbLength(a[Len(a)])

\* A binary64 value: (-1)^neg * sig * 2^exp with a significand of SignificandBits binary
\* digits (zero: none), or Infinity, -Infinity, NaN.
Double(neg, sig, exp) == [kind |-> "finite", neg |-> neg, sig |-> sig, exp |-> exp]
NonFiniteDouble(kind) == [kind |-> kind, neg |-> kind = "-Infinity", sig |-> <<>>, exp |-> 0]
DoubleZero == Double(FALSE, <<>>, 0)

\* Round to nearest, ties to even: the binary64 value nearest to
\* (-1)^neg * (n + f) * 2^exp, where 0 <= f < 1, and f > 0 iff sticky.
RoundToDouble(neg, n, exp, sticky) ==
    LET drop == BitLength(n) - SignificandBits
    IN  IF n = <<>> THEN DoubleZero
        ELSE IF drop <= 0 THEN Double(neg, NatTimes(n, NatPow2(-drop)), exp + drop)
        ELSE LET split == NatDivide(n, NatPow2(drop))
                 half == NatPow2(drop - 1)
                 odd == split.quotient[1] % 2 = 1
                 up == IF split.remainder = half THEN sticky \/ odd
                       ELSE NatLess(half, split.remainder)
                 rounded == IF up THEN NatAdd(split.quotient, <<1>>) ELSE split.quotient
             IN  IF BitLength(rounded) > SignificandBits
                 THEN Double(neg, NatDivide(rounded, <<2>>).quotient, exp + drop + 1)
                 ELSE Double(neg, rounded, exp + drop)

\* The binary64 value of an integer
IntToDouble(n) == RoundToDouble(n < 0, NatOf(IF n < 0 THEN -n ELSE n), 0, FALSE)

\* x + y on finite values: the exact sum, rounded
DoubleAdd(x, y) ==
    IF x.sig = <<>> THEN y
    ELSE IF y.sig = <<>> THEN x
    ELSE LET e == IF x.exp < y.exp THEN x.exp ELSE y.exp
             a == NatTimes(x.sig, NatPow2(x.exp - e))
             b == NatTimes(y.sig, NatPow2(y.exp - e))
         IN  IF x.neg = y.neg THEN RoundToDouble(x.neg, NatAdd(a, b), e, FALSE)
             ELSE IF NatLess(a, b) THEN RoundToDouble(y.neg, NatSub(b, a), e, FALSE)
             ELSE RoundToDouble(x.neg, NatSub(a, b), e, FALSE)

DoubleNegate(x) == IF x.sig = <<>> THEN x ELSE [x EXCEPT !.neg = ~x.neg]

DoubleSubtract(x, y) == DoubleAdd(x, DoubleNegate(y))

\* x * y: a non-finite x is passed on, the exact product of finite values is rounded
DoubleTimes(x, y) ==
    IF x.kind # "finite" THEN x
    ELSE RoundToDouble(x.neg # y.neg, NatTimes(x.sig, y.sig), x.exp + y.exp, FALSE)

\* x / y on finite values: x / 0 is Infinity, -Infinity or NaN; else the quotient to
\* more digits than a significand holds, rounded with the remainder as sticky
DoubleDivide(x, y) ==
    IF y.sig = <<>>
    THEN IF x.sig = <<>> THEN NonFiniteDouble("NaN")
         ELSE IF x.neg THEN NonFiniteDouble("-Infinity") ELSE NonFiniteDouble("Infinity")
    ELSE IF x.sig = <<>> THEN DoubleZero
    ELSE LET extra == SignificandBits + 3
             q == NatDivide(NatTimes(x.sig, NatPow2(extra)), y.sig)
         IN  RoundToDouble(x.neg # y.neg, q.quotient, x.exp - extra - y.exp,
                           q.remainder # <<>>)

\* x < y on finite values
DoubleLess(x, y) ==
    LET e == IF x.exp < y.exp THEN x.exp ELSE y.exp
        a == NatTimes(x.sig, NatPow2(x.exp - e))
        b == NatTimes(y.sig, NatPow2(y.exp - e))
    IN  IF x.neg # y.neg THEN x.neg
        ELSE IF x.neg THEN NatLess(b, a) ELSE NatLess(a, b)

\* The binary64 value with the significand hi * 2^26 + lo
DoubleOf(hi, lo, exp) ==
    RoundToDouble(FALSE, NatAdd(NatTimes(NatOf(hi), NatPow2(26)), NatOf(lo)), exp, FALSE)

DoubleSign(x) == IF x.sig = <<>> THEN 0 ELSE IF x.neg THEN -1 ELSE 1

---------------------------------------------------------------------------
(* calculateStats *)

\* Mutant: the two prices change places.
calculatePriceChangeSwapped(oldPrice, newPrice) ==
    Times(Divide(oldPrice - newPrice, newPrice), 100)

\* ((newPrice - oldPrice) / oldPrice) * 100
calculatePriceChange(oldPrice, newPrice) == Times(Divide(newPrice - oldPrice, oldPrice), 100)

\* Mutant: the sneaker's points are put in ascending time order first.
RECURSIVE InsertPointByTime(_, _)
InsertPointByTime(sorted, point) ==
    IF sorted = <<>> THEN <<point>>
    ELSE IF NewDate(sorted[Len(sorted)].timestamp).time <= NewDate(point.timestamp).time
         THEN Append(sorted, point)
    ELSE Append(InsertPointByTime(SubSeq(sorted, 1, Len(sorted) - 1), point),
                sorted[Len(sorted)])

RECURSIVE SortPointsByTime(_, _)
SortPointsByTime(sorted, rest) ==
    IF rest = <<>> THEN sorted
    ELSE SortPointsByTime(InsertPointByTime(sorted, Head(rest)), Tail(rest))

SneakerPricesSorted(s, points) ==
    SortPointsByTime(<<>>, SelectSeq(points, LAMBDA p : p.sneaker_id = s.sneaker_id))

\* Mutant: the points of every sneaker are kept.
SneakerPricesAll(s, points) == points

\* pricePoints.filter((p) => p.sneaker_id === sneaker.sneaker_id)
SneakerPrices(s, points) == SelectSeq(points, LAMBDA p : p.sneaker_id = s.sneaker_id)

\* sneakerPrices.map((p) => p.price)
PricesOf(points) == [i \in DOMAIN points |-> points[i].price]

\* Math.min(...prices) and Math.max(...prices) of a non-empty list
MathMin(prices) == CHOOSE m \in Range(prices) : \A x \in Range(prices) : m <= x
MathMax(prices) == CHOOSE m \in Range(prices) : \A x \in Range(prices) : m >= x

\* prices.reduce((sum, p) => sum + p, 0)
RECURSIVE ReduceSum(_, _)
ReduceSum(prices, sum) ==
    IF prices = <<>> THEN sum ELSE ReduceSum(Tail(prices), sum + Head(prices))

AvgPrice(prices) == Divide(ReduceSum(prices, 0), Len(prices))

\* Mutant: an absent string becomes the empty string, with no fallback.
StringOrEmpty(optional, fallback) ==
    IF optional = <<>> THEN "" ELSE optional[1]

\* value || fallback: an absent or empty string, an absent or zero number, is falsy
StringOr(optional, fallback) ==
    IF optional = <<>> \/ optional[1] = "" THEN fallback ELSE optional[1]
NumberOr(optional, fallback) ==
    IF optional = <<>> \/ optional[1] = 0 THEN fallback ELSE optional[1]

SneakerStats(s, currentPrice, priceChange, priceChangePercent, minPrice, maxPrice, avgPrice) ==
    [sneaker_id |-> s.sneaker_id,
     name |-> SeriesKey(s),
     sku |-> s.sku,
     current_price |-> currentPrice,
     retail_price |-> s.price,
     price_change |-> priceChange,
     price_change_percent |-> priceChangePercent,
     min_price |-> minPrice,
     max_price |-> maxPrice,
     avg_price |-> avgPrice,
     release_date |-> StringOr(s.release_date, "Unknown"),
     available_sizes |-> StringOr(s.available_sizes, "N/A"),
     ratings |-> NumberOr(s.ratings, 0)]

\* Mutant: the current price is read from the last sample of the whole list.
calculateStatsLastOfAll(s, points) ==
    LET sneakerPrices == SneakerPrices(s, points)
        prices == PricesOf(sneakerPrices)
        currentPrice == points[Len(points)].price
    IN  IF Len(sneakerPrices) = 0
        THEN Returned(SneakerStats(s, s.price, 0, Num(0), s.price, s.price, Num(s.price)))
        ELSE Returned(SneakerStats(s, currentPrice, currentPrice - s.price,
                                   calculatePriceChange(s.price, currentPrice),
                                   MathMin(prices), MathMax(prices), AvgPrice(prices)))

calculateStats(s, points) ==
    LET sneakerPrices == SneakerPrices(s, points)
        prices == PricesOf(sneakerPrices)
        currentPrice == prices[Len(prices)]
    IN  IF Len(sneakerPrices) = 0
        THEN Returned(SneakerStats(s, s.price, 0, Num(0), s.price, s.price, Num(s.price)))
        ELSE Returned(SneakerStats(s, currentPrice, currentPrice - s.price,
                                   calculatePriceChange(s.price, currentPrice),
                                   MathMin(prices), MathMax(prices), AvgPrice(prices)))

---------------------------------------------------------------------------
(* calculateStats on prices that are not integers: every operation rounds *)

\* Math.min(...prices) and Math.max(...prices) of a non-empty list
DoubleMin(prices) == CHOOSE m \in Range(prices) : \A x \in Range(prices) : ~DoubleLess(x, m)
DoubleMax(prices) == CHOOSE m \in Range(prices) : \A x \in Range(prices) : ~DoubleLess(m, x)

\* prices.reduce((sum, p) => sum + p, 0)
RECURSIVE DoubleReduceSum(_, _)
DoubleReduceSum(prices, sum) ==
    IF prices = <<>> THEN sum
    ELSE DoubleReduceSum(Tail(prices), DoubleAdd(sum, Head(prices)))

\* ((newPrice - oldPrice) / oldPrice) * 100
calculatePriceChangeDouble(oldPrice, newPrice) ==
    DoubleTimes(DoubleDivide(DoubleSubtract(newPrice, oldPrice), oldPrice), IntToDouble(100))

calculateStatsDouble(s, points) ==
    LET sneakerPrices == SneakerPrices(s, points)
        prices == PricesOf(sneakerPrices)
        currentPrice == prices[Len(prices)]
    IN  IF Len(sneakerPrices) = 0
        THEN Returned(SneakerStats(s, s.price, DoubleZero, DoubleZero, s.price, s.price, s.price))
        ELSE Returned(SneakerStats(s, currentPrice, DoubleSubtract(currentPrice, s.price),
                                   calculatePriceChangeDouble(s.price, currentPrice),
                                   DoubleMin(prices), DoubleMax(prices),
                                   DoubleDivide(DoubleReduceSum(prices, DoubleZero),
                                                IntToDouble(Len(prices)))))

---------------------------------------------------------------------------
(* The chart helpers applied to drawn inputs *)

NoSneaker == Sneaker(0, "", <<>>, 0, FALSE)

\* No PriceChart was rendered yet.
NotRendered == [view |-> "none", lines |-> <<>>]

\* SWR holds no data for any key.
EmptyCache == [k \in {} |-> <<>>]

\* The App before its first render: nothing fetched, nothing selected.
AppUnmounted ==
    /\ fetchedSneakers = <<>>
    /\ sneakersRequest = "idle"
    /\ selectedSneakers = <<>>
    /\ priceCache = EmptyCache
    /\ priceInFlight = {}
    /\ isInitializing = FALSE
    /\ initMessage = ""
    /\ initPending = 0
    /\ initOutcome = "none"

Init ==
    /\ pricePoints \in SeqsUpTo(ChartPoints, MaxPoints)
    /\ sneakers \in EntityLists
    /\ sneaker = NoSneaker
    /\ chartData = NotCalled
    /\ hookData = NotCalled
    /\ stats = NotCalled
    /\ chartView = NotRendered
    /\ colorIndex = 0
    /\ color = ""
    /\ AppUnmounted

\* Mutant: the row array outlives the call, and each call pushes onto it.
CallTransformPriceDataAccumulating ==
    /\ chartData' =
          LET outcome == transformPriceData(pricePoints, sneakers)
          IN  IF outcome.threw THEN outcome
              ELSE Returned(SortRows(chartData.value \o outcome.value))
    /\ UNCHANGED <<pricePoints, sneakers, sneaker, hookData, stats, chartView, colorVars, appVars>>

CallTransformPriceData ==
    /\ chartData' = transformPriceData(pricePoints, sneakers)
    /\ UNCHANGED <<pricePoints, sneakers, sneaker, hookData, stats, chartView, colorVars, appVars>>

CallUseChartData ==
    /\ hookData' = useChartData(pricePoints, sneakers)
    /\ UNCHANGED <<pricePoints, sneakers, sneaker, chartData, stats, chartView, colorVars, appVars>>

Next == CallTransformPriceData \/ CallUseChartData

Spec == Init /\ [][Next]_vars

---------------------------------------------------------------------------
(* calculateStats applied to drawn inputs *)

StatTimestamps == {Iso(0, 2 * MsPerHour), Iso(1, 0)}
StatPrices == {100, 120, 140}
StatPoints == {PricePoint(ts, p, id) : ts \in StatTimestamps, p \in StatPrices, id \in SneakerIds}

\* Sneaker 1 with a retail price that is zero, low or in the middle of the sample prices.
StatSneakers == {Sneaker(1, "Air", <<"Red">>, retail, optional) : retail \in {0, 100, 120}, optional \in BOOLEAN}

InitStats ==
    /\ pricePoints \in SeqsUpTo(StatPoints, MaxPoints)
    /\ sneakers = <<>>
    /\ sneaker \in StatSneakers
    /\ chartData = NotCalled
    /\ hookData = NotCalled
    /\ stats = NotCalled
    /\ chartView = NotRendered
    /\ colorIndex = 0
    /\ color = ""
    /\ AppUnmounted

\* Mutant: the sample list is sorted by time in place before it is filtered.
CallCalculateStatsSortingInput ==
    /\ pricePoints' = SortPointsByTime(<<>>, pricePoints)
    /\ stats' = calculateStats(sneaker, pricePoints')
    /\ UNCHANGED <<sneakers, sneaker, chartData, hookData, chartView, colorVars, appVars>>

CallCalculateStats ==
    /\ stats' = calculateStats(sneaker, pricePoints)
    /\ UNCHANGED <<pricePoints, sneakers, sneaker, chartData, hookData, chartView, colorVars, appVars>>

NextStats == CallCalculateStats

SpecStats == InitStats /\ [][NextStats]_vars

---------------------------------------------------------------------------
(* calculateStats applied to sneakers with each optional field present or not *)

\* A sneaker row with the given release_date, available_sizes and ratings columns,
\* each <<>> when the column is NULL.
SneakerWith(releaseDate, availableSizes, ratings) ==
    [Sneaker(1, "Air", <<"Red">>, 100, FALSE) EXCEPT
        !.release_date = releaseDate, !.available_sizes = availableSizes, !.ratings = ratings]

\* release_date and available_sizes are VARCHAR columns without a CHECK, so '' can be
\* stored; ratings is NULL or within 1..5.
OptionalSneakers ==
    {SneakerWith(r, a, n) :
        r \in {<<>>, <<"">>, <<"2024-01-01">>},
        a \in {<<>>, <<"">>, <<"8,9,10">>},
        n \in {<<>>, <<1>>, <<5>>}}

OptionalPoints ==
    {PricePoint(Iso(0, 2 * MsPerHour), 120, 1), PricePoint(Iso(0, 2 * MsPerHour), 120, 2)}

InitOptional ==
    /\ pricePoints \in SeqsUpTo(OptionalPoints, MaxPoints)
    /\ sneakers = <<>>
    /\ sneaker \in OptionalSneakers
    /\ chartData = NotCalled
    /\ hookData = NotCalled
    /\ stats = NotCalled
    /\ chartView = NotRendered
    /\ colorIndex = 0
    /\ color = ""
    /\ AppUnmounted

SpecOptional == InitOptional /\ [][NextStats]_vars

---------------------------------------------------------------------------
(* calculateStats applied to prices with cents *)

\* The numbers JSON.parse reads from 0.7, 100.5 and 120.1
Price_0_7 == DoubleOf(93952409, 40265318, -53)
Price_100_5 == DoubleOf(105381888, 0, -46)
Price_120_1 == DoubleOf(125933977, 40265318, -46)

DoublePoints ==
    {PricePoint(Iso(0, 2 * MsPerHour), p, 1) : p \in {Price_0_7, Price_100_5, Price_120_1}}
        \cup {PricePoint(Iso(0, 2 * MsPerHour), Price_100_5, 2)}

DoubleSneakers == {Sneaker(1, "Air", <<"Red">>, retail, TRUE) : retail \in {Price_100_5, Price_120_1}}

InitDouble ==
    /\ pricePoints \in SeqsUpTo(DoublePoints, MaxPoints)
    /\ sneakers = <<>>
    /\ sneaker \in DoubleSneakers
    /\ chartData = NotCalled
    /\ hookData = NotCalled
    /\ stats = NotCalled
    /\ chartView = NotRendered
    /\ colorIndex = 0
    /\ color = ""
    /\ AppUnmounted

CallCalculateStatsDouble ==
    /\ stats' = calculateStatsDouble(sneaker, pricePoints)
    /\ UNCHANGED <<pricePoints, sneakers, sneaker, chartData, hookData, chartView, colorVars, appVars>>

NextDouble == CallCalculateStatsDouble

SpecDouble == InitDouble /\ [][NextDouble]_vars

---------------------------------------------------------------------------
(* All three helpers applied to the same drawn inputs, malformed ones included *)

\* Sneaker 1 sampled on two days or with a timestamp that does not parse, at either
\* price, and one sample of sneaker 2.
AnyPoints ==
    {PricePoint(ts, p, 1) :
        ts \in {Iso(0, 2 * MsPerHour), Iso(1, 0), InvalidTimestamp}, p \in ChartPrices}
        \cup {PricePoint(Iso(0, 2 * MsPerHour), 100, 2)}

AnyEntityLists ==
    {<<>>,
     <<Sneaker(1, "Air", <<"Red">>, 100, TRUE)>>,
     <<Sneaker(2, "Zoom", <<>>, 120, FALSE)>>,
     <<Sneaker(2, "Zoom", <<>>, 120, FALSE), Sneaker(1, "Air", <<"Red">>, 100, TRUE)>>}

AnySneakers == {Sneaker(1, "Air", <<"Red">>, retail, TRUE) : retail \in {0, 100}}

InitAll ==
    /\ pricePoints \in SeqsUpTo(AnyPoints, MaxPoints)
    /\ sneakers \in AnyEntityLists
    /\ sneaker \in AnySneakers
    /\ chartData = NotCalled
    /\ hookData = NotCalled
    /\ stats = NotCalled
    /\ chartView = NotRendered
    /\ colorIndex = 0
    /\ color = ""
    /\ AppUnmounted

NextAll == CallTransformPriceData \/ CallUseChartData \/ CallCalculateStats

SpecAll == InitAll /\ [][NextAll]_vars

---------------------------------------------------------------------------
(* The chart and the statistics card of one selected sneaker, from the same inputs *)

\* App hands PriceChart and StatisticsCards the same priceHistory and
\* selectedSneakerObjects; StatisticsCards calls calculateStats for each of the sneakers.
AgreeEntityLists ==
    {<<Sneaker(1, "Air", <<"Red">>, 100, TRUE)>>,
     <<Sneaker(1, "Air", <<"Red">>, 100, TRUE), Sneaker(2, "Zoom", <<>>, 120, FALSE)>>,
     <<Sneaker(1, "Air", <<"Red">>, 100, TRUE), Sneaker(2, "Air", <<"Red">>, 120, TRUE)>>,
     <<Sneaker(2, "Air", <<"Red">>, 120, TRUE), Sneaker(1, "Air", <<"Red">>, 100, TRUE)>>}

InitAgree ==
    /\ pricePoints \in SeqsUpTo(ChartPoints, MaxPoints)
    /\ sneakers \in AgreeEntityLists
    /\ sneaker \in Range(sneakers)
    /\ chartData = NotCalled
    /\ hookData = NotCalled
    /\ stats = NotCalled
    /\ chartView = NotRendered
    /\ colorIndex = 0
    /\ color = ""
    /\ AppUnmounted

NextAgree == CallTransformPriceData \/ CallCalculateStats

SpecAgree == InitAgree /\ [][NextAgree]_vars

---------------------------------------------------------------------------
(* PriceChart rendering the rows useChartData returned *)

CHART_COLORS ==
    <<"#3b82f6", "#ef4444", "#10b981", "#f59e0b", "#8b5cf6", "#ec4899", "#14b8a6", "#f97316">>

\* Mutant: the index wraps one colour early, and the orange is never handed out.
getChartColorWrappingEarly(index) == CHART_COLORS[(index % (Len(CHART_COLORS) - 1)) + 1]

\* CHART_COLORS[index % CHART_COLORS.length], for an index counted from 0
getChartColor(index) == CHART_COLORS[(index % Len(CHART_COLORS)) + 1]

\* Object.keys(row) without 'timestamp': the series labels of a row, as they were set
ObjectKeys(row) == [i \in DOMAIN row.series |-> row.series[i].key]

\* Object.keys(data[0] || {}).filter((key) => key !== 'timestamp')
DataKeys(data) == IF Len(data) = 0 THEN <<>> ELSE ObjectKeys(data[1])

\* What PriceChart returns: the spinner, the 'No Data' card, or a LineChart with one
\* <Line dataKey stroke> per data key.
PriceChart(data, isLoading) ==
    IF isLoading THEN [view |-> "loading", lines |-> <<>>]
    ELSE IF Len(data) = 0 THEN [view |-> "empty", lines |-> <<>>]
    ELSE LET dataKeys == DataKeys(data)
         IN  [view |-> "chart",
              lines |-> [i \in DOMAIN dataKeys |->
                            [dataKey |-> dataKeys[i], stroke |-> getChartColor(i - 1)]]]

\* <PriceChart data={chartData} isLoading={priceLoading} />, once useChartData returned
RenderPriceChart ==
    /\ hookData.called
    /\ ~hookData.threw
    /\ \E isLoading \in BOOLEAN : chartView' = PriceChart(hookData.value, isLoading)
    /\ UNCHANGED <<pricePoints, sneakers, sneaker, chartData, hookData, stats, colorVars, appVars>>

NextRender == CallUseChartData \/ RenderPriceChart

SpecRender == Init /\ [][NextRender]_vars

---------------------------------------------------------------------------
(* getChartColor called with any index, as an exported helper may be *)

\* The largest index getChartColor is called with
MaxColorIndex == 127

InitColor ==
    /\ pricePoints = <<>>
    /\ sneakers = <<>>
    /\ sneaker = NoSneaker
    /\ chartData = NotCalled
    /\ hookData = NotCalled
    /\ stats = NotCalled
    /\ chartView = NotRendered
    /\ colorIndex = 0
    /\ color = ""
    /\ AppUnmounted

\* getChartColor(index), for a non-negative whole index
CallGetChartColor ==
    /\ \E index \in 0..MaxColorIndex :
          /\ colorIndex' = index
          /\ color' = getChartColor(index)
    /\ UNCHANGED <<pricePoints, sneakers, sneaker, chartData, hookData, stats, chartView, appVars>>

NextColor == CallGetChartColor

SpecColor == InitColor /\ [][NextColor]_vars

---------------------------------------------------------------------------
(* The App component: useSneakers, useSelection / SneakerSelect, usePriceHistory *)

\* The state of the helper calls, which no App action touches.
helperVars ==
    <<pricePoints, sneakers, sneaker, chartData, hookData, stats, chartView, colorVars>>

\* The sneaker list of GET /api/sneakers: no rows before the data is initialized, then
\* these two.
AppCatalog ==
    <<Sneaker(1, "Air", <<"Red">>, 100, TRUE), Sneaker(2, "Zoom", <<>>, 120, FALSE)>>

SneakerResponses == {<<>>, AppCatalog}

\* The price_history rows, and what POST /api/sneakers/prices may return for sneaker_ids:
\* nothing before the data is initialized, then the rows of the sneakers asked for; the
\* response is not checked against the request, so it may as well hold every row.
PriceTable ==
    <<PricePoint(Iso(0, 2 * MsPerHour), 100, 1),
      PricePoint(Iso(1, 0), 100, 2),
      PricePoint(Iso(1, 0), 110, 1)>>

PriceResponses(sneakerIds) ==
    {<<>>, SelectSeq(PriceTable, LAMBDA p : p.sneaker_id \in Range(sneakerIds)), PriceTable}

\* useSWR('/api/sneakers', fetchSneakers): the first fetch, a retry after an error, a
\* revalidation on reconnect.
StartSneakersFetch ==
    /\ sneakersRequest \in {"idle", "loaded", "failed"}
    /\ sneakersRequest' = "loading"
    /\ UNCHANGED <<fetchedSneakers, selectedSneakers, priceCache, priceInFlight, helperVars, initVars>>

SneakersFetchSucceeds ==
    /\ sneakersRequest = "loading"
    /\ \E data \in SneakerResponses : fetchedSneakers' = data
    /\ sneakersRequest' = "loaded"
    /\ UNCHANGED <<selectedSneakers, priceCache, priceInFlight, helperVars, initVars>>

SneakersFetchFails ==
    /\ sneakersRequest = "loading"
    /\ sneakersRequest' = "failed"
    /\ UNCHANGED <<fetchedSneakers, selectedSneakers, priceCache, priceInFlight, helperVars, initVars>>

\* The option values SneakerSelect offers: sneaker.sneaker_id of each fetched sneaker
OptionValues(list) == {list[i].sneaker_id : i \in DOMAIN list}

\* Mutant: the options stay enabled until more than 5 are selected.
IsOptionDisabledAboveFive(selected) == Len(selected) > 5

\* isOptionDisabled={() => selectedSneakers.length >= 5}
IsOptionDisabled(selected) == Len(selected) >= 5

\* react-select (isMulti) picks an enabled option that is not yet a value and calls
\* onChange with the value list extended by it; handleSelectionChange stores the list.
SelectOption ==
    /\ ~IsOptionDisabled(selectedSneakers)
    /\ \E v \in OptionValues(fetchedSneakers) \ Range(selectedSneakers) :
          selectedSneakers' = Append(selectedSneakers, v)
    /\ UNCHANGED <<fetchedSneakers, sneakersRequest, priceCache, priceInFlight, helperVars, initVars>>

\* react-select removes one value (its remove button, or Backspace for the last one).
RemoveValue ==
    /\ \E i \in DOMAIN selectedSneakers :
          selectedSneakers' =
              SubSeq(selectedSneakers, 1, i - 1) \o SubSeq(selectedSneakers, i + 1, Len(selectedSneakers))
    /\ UNCHANGED <<fetchedSneakers, sneakersRequest, priceCache, priceInFlight, helperVars, initVars>>

\* react-select's clear indicator calls onChange([]).
ClearValue ==
    /\ Len(selectedSneakers) > 0
    /\ selectedSneakers' = <<>>
    /\ UNCHANGED <<fetchedSneakers, sneakersRequest, priceCache, priceInFlight, helperVars, initVars>>

\* The 'Clear Selection' button, rendered while selectedSneakers.length > 0
ClearSelection ==
    /\ Len(selectedSneakers) > 0
    /\ selectedSneakers' = <<>>
    /\ UNCHANGED <<fetchedSneakers, sneakersRequest, priceCache, priceInFlight, helperVars, initVars>>

\* Mutant: a request is made for an empty id list as well.
ShouldFetchAlways(sneakerIds) == TRUE

\* const shouldFetch = sneakerIds.length > 0
ShouldFetch(sneakerIds) == Len(sneakerIds) > 0

\* The SWR key: <<>> for null, else the id list (the URL part is the same in every key).
SwrKey(sneakerIds) == IF ShouldFetch(sneakerIds) THEN <<sneakerIds>> ELSE <<>>

\* SWR starts the fetcher for the current key unless the key is null or a request for it
\* is in flight (deduping).
StartPriceFetch ==
    /\ LET key == SwrKey(selectedSneakers)
       IN  /\ key # <<>>
           /\ key[1] \notin priceInFlight
           /\ priceInFlight' = priceInFlight \cup {key[1]}
    /\ UNCHANGED <<fetchedSneakers, sneakersRequest, selectedSneakers, priceCache, helperVars, initVars>>

\* A response is stored under the key it was requested for, whatever is selected by then.
PriceFetchSucceeds ==
    /\ \E sneakerIds \in priceInFlight : \E data \in PriceResponses(sneakerIds) :
          /\ priceCache' = [k \in DOMAIN priceCache \cup {sneakerIds} |->
                               IF k = sneakerIds THEN data ELSE priceCache[k]]
          /\ priceInFlight' = priceInFlight \ {sneakerIds}
    /\ UNCHANGED <<fetchedSneakers, sneakersRequest, selectedSneakers, helperVars, initVars>>

PriceFetchFails ==
    /\ \E sneakerIds \in priceInFlight : priceInFlight' = priceInFlight \ {sneakerIds}
    /\ UNCHANGED <<fetchedSneakers, sneakersRequest, selectedSneakers, priceCache, helperVars, initVars>>

\* priceHistory: data || [], where data is what SWR holds for the current key
UsePriceHistory(sneakerIds) ==
    LET key == SwrKey(sneakerIds)
    IN  IF key # <<>> /\ key[1] \in DOMAIN priceCache THEN priceCache[key[1]] ELSE <<>>

\* Mutant: every fetched sneaker is handed to useChartData, selected or not.
SelectedSneakerObjectsUnfiltered == fetchedSneakers

\* sneakers.filter((s) => selectedIds.includes(s.sneaker_id))
SelectedSneakerObjects ==
    SelectSeq(fetchedSneakers, LAMBDA s : s.sneaker_id \in Range(selectedSneakers))

\* What App's render computes from the hook state.
AppPriceHistory == UsePriceHistory(selectedSneakers)
AppChartData == useChartData(AppPriceHistory, SelectedSneakerObjects)

InitApp ==
    /\ pricePoints = <<>>
    /\ sneakers = <<>>
    /\ sneaker = NoSneaker
    /\ chartData = NotCalled
    /\ hookData = NotCalled
    /\ stats = NotCalled
    /\ chartView = NotRendered
    /\ colorIndex = 0
    /\ color = ""
    /\ AppUnmounted

NextApp ==
    \/ StartSneakersFetch
    \/ SneakersFetchSucceeds
    \/ SneakersFetchFails
    \/ SelectOption
    \/ RemoveValue
    \/ ClearValue
    \/ ClearSelection
    \/ StartPriceFetch
    \/ PriceFetchSucceeds
    \/ PriceFetchFails

SpecApp == InitApp /\ [][NextApp]_vars

\* SneakerSelect over a fetched list of more sneakers than can be selected.
SelectCatalog == [i \in 1..NumOptions |-> Sneaker(i, "Air", <<"Red">>, 100, TRUE)]

InitSelect ==
    /\ pricePoints = <<>>
    /\ sneakers = <<>>
    /\ sneaker = NoSneaker
    /\ chartData = NotCalled
    /\ hookData = NotCalled
    /\ stats = NotCalled
    /\ chartView = NotRendered
    /\ colorIndex = 0
    /\ color = ""
    /\ fetchedSneakers = SelectCatalog
    /\ sneakersRequest = "loaded"
    /\ selectedSneakers = <<>>
    /\ priceCache = EmptyCache
    /\ priceInFlight = {}
    /\ isInitializing = FALSE
    /\ initMessage = ""
    /\ initPending = 0
    /\ initOutcome = "none"

NextSelect == SelectOption \/ RemoveValue \/ ClearValue \/ ClearSelection

SpecSelect == InitSelect /\ [][NextSelect]_vars

---------------------------------------------------------------------------
(* handleInitialize and the Initialize Data button *)

InitSucceededMessage == "Database initialized successfully! Refresh the page to see data."
InitFailedMessage == "Failed to initialize database. Make sure the backend is running."

\* Mutant: the button is never disabled.
InitializeDisabledNever == FALSE

\* <button onClick={handleInitialize} disabled={isInitializing}>
InitializeDisabled == isInitializing

\* A click runs handleInitialize up to its await: both state updates of the handler are
\* rendered before the next event is handled, and initializeData() has sent its request.
ClickInitialize ==
    /\ ~InitializeDisabled
    /\ isInitializing' = TRUE
    /\ initMessage' = ""
    /\ initPending' = initPending + 1
    /\ initOutcome' = "none"
    /\ UNCHANGED <<fetchedSneakers, sneakersRequest, selectedSneakers, priceCache,
                   priceInFlight, helperVars>>

\* Mutant: the flag is lowered in the try block only, not in a finally block.
InitializeFailsFlagKept ==
    /\ initPending > 0
    /\ initPending' = initPending - 1
    /\ initOutcome' = "rejected"
    /\ initMessage' = InitFailedMessage
    /\ UNCHANGED <<isInitializing, fetchedSneakers, sneakersRequest, selectedSneakers,
                   priceCache, priceInFlight, helperVars>>

\* The promise is fulfilled: the rest of the try block, then the finally block.
InitializeSucceeds ==
    /\ initPending > 0
    /\ initPending' = initPending - 1
    /\ initOutcome' = "fulfilled"
    /\ initMessage' = InitSucceededMessage
    /\ isInitializing' = FALSE
    /\ UNCHANGED <<fetchedSneakers, sneakersRequest, selectedSneakers, priceCache,
                   priceInFlight, helperVars>>

\* The promise is rejected (an error response, no connection, or axios' timeout of 10 s):
\* the catch block, then the finally block.
InitializeFails ==
    /\ initPending > 0
    /\ initPending' = initPending - 1
    /\ initOutcome' = "rejected"
    /\ initMessage' = InitFailedMessage
    /\ isInitializing' = FALSE
    /\ UNCHANGED <<fetchedSneakers, sneakersRequest, selectedSneakers, priceCache,
                   priceInFlight, helperVars>>

NextInitialize ==
    \/ ClickInitialize
    \/ InitializeSucceeds
    \/ InitializeFails
    \/ SelectOption
    \/ RemoveValue
    \/ ClearValue
    \/ ClearSelection

\* The request settles: axios rejects it after its timeout at the latest.
SpecInitialize ==
    InitSelect /\ [][NextInitialize]_vars /\ WF_vars(InitializeSucceeds \/ InitializeFails)

---------------------------------------------------------------------------
(* What the claims read off a state *)

\* The call returned (it did not throw).
Ok(outcome) == outcome.called /\ ~outcome.threw

\* The UTC calendar date and the instant written in a sample's timestamp.
DayOf(p) == p.timestamp.day
InstantOf(p) == p.timestamp.day * MsPerDay + p.timestamp.ms

\* The Date of UTC midnight of a day.
Midnight(day) == [valid |-> TRUE, time |-> day * MsPerDay]

SampleDays == {DayOf(p) : p \in Range(pricePoints)}

Listed(id) == \E s \in Range(sneakers) : s.sneaker_id = id

LabelsDistinct == \A a, b \in Range(sneakers) : SeriesKey(a) = SeriesKey(b) => a = b

\* The places in the sample list of sneaker s's samples of a day.
SamplesOn(s, day) ==
    {i \in DOMAIN pricePoints :
        pricePoints[i].sneaker_id = s.sneaker_id /\ DayOf(pricePoints[i]) = day}

SetMax(S) == CHOOSE m \in S : \A x \in S : x <= m

\* Row `row` charts `price` under sneaker s's label.
Charts(row, s, price) ==
    /\ MapHas(row.series, SeriesKey(s))
    /\ MapGet(row.series, SeriesKey(s)) = price

\* Some row of `rows` is dated `day` and charts `price` for s.
ChartedOn(rows, day, s, price) ==
    \E r \in DOMAIN rows : rows[r].timestamp = Midnight(day) /\ Charts(rows[r], s, price)

ReceivedInTimeOrder ==
    \A i, j \in DOMAIN pricePoints :
        i < j => InstantOf(pricePoints[i]) <= InstantOf(pricePoints[j])

---------------------------------------------------------------------------
(* Claims about transformPriceData and useChartData, under Spec *)

\* C1: the rows transformPriceData returns have pairwise distinct bucket dates, in
\* strictly increasing order, whatever the order of the samples.
C1_BucketDatesStrictlyIncreasing ==
    Ok(chartData) =>
        \A i, j \in DOMAIN chartData.value :
            i < j => /\ chartData.value[i].timestamp.valid
                     /\ chartData.value[j].timestamp.valid
                     /\ chartData.value[i].timestamp.time < chartData.value[j].timestamp.time

\* C1 witness: samples received with the later day first, and two rows returned.
C1_Witness ==
    /\ Ok(chartData)
    /\ Len(chartData.value) >= 2
    /\ Len(pricePoints) >= 2
    /\ DayOf(pricePoints[1]) > DayOf(pricePoints[2])

\* C2: last write wins in received order: when a listed sneaker (labels distinct) has
\* several samples on one UTC day, the row of that day holds under its label the price
\* of the one that is last in the sample list.
C2_LastReceivedWins ==
    Ok(chartData) /\ LabelsDistinct =>
        \A s \in Range(sneakers) : \A day \in SampleDays :
            Cardinality(SamplesOn(s, day)) >= 2 =>
                ChartedOn(chartData.value, day, s,
                          pricePoints[SetMax(SamplesOn(s, day))].price)

\* C2 witness: prices 100 then 110 of one listed sneaker on one day, charted.
C2_Witness ==
    /\ Ok(chartData)
    /\ LabelsDistinct
    /\ \E i, j \in DOMAIN pricePoints :
          /\ i < j
          /\ pricePoints[i].sneaker_id = pricePoints[j].sneaker_id
          /\ Listed(pricePoints[i].sneaker_id)
          /\ DayOf(pricePoints[i]) = DayOf(pricePoints[j])
          /\ pricePoints[i].price = 100
          /\ pricePoints[j].price = 110
          /\ \E r \in DOMAIN chartData.value :
                \E k \in MapKeys(chartData.value[r].series) :
                    MapGet(chartData.value[r].series, k) = 110

\* C3 as stated: when several samples of a listed sneaker fall on one day, the row holds
\* the price of a sample with the latest timestamp among them, in whatever order the
\* samples are received.
C3_LatestTimestampWins ==
    Ok(chartData) /\ LabelsDistinct =>
        \A s \in Range(sneakers) : \A day \in SampleDays :
            Cardinality(SamplesOn(s, day)) >= 2 =>
                \E i \in SamplesOn(s, day) :
                    /\ \A j \in SamplesOn(s, day) :
                          InstantOf(pricePoints[j]) <= InstantOf(pricePoints[i])
                    /\ ChartedOn(chartData.value, day, s, pricePoints[i].price)

\* C3 amended: when the samples are received in ascending time order, the row holds the
\* price of the sample with the latest timestamp among them (of the last received of
\* those, when several carry that timestamp).
C3_LatestTimestampWinsWhenSorted ==
    Ok(chartData) /\ LabelsDistinct /\ ReceivedInTimeOrder =>
        \A s \in Range(sneakers) : \A day \in SampleDays :
            Cardinality(SamplesOn(s, day)) >= 2 =>
                \E i \in SamplesOn(s, day) :
                    /\ \A j \in SamplesOn(s, day) :
                          \/ InstantOf(pricePoints[j]) < InstantOf(pricePoints[i])
                          \/ InstantOf(pricePoints[j]) = InstantOf(pricePoints[i]) /\ j <= i
                    /\ ChartedOn(chartData.value, day, s, pricePoints[i].price)

\* C3 witness: a listed sneaker's 02:00 sample then its 23:00 sample of the same day, at
\* different prices, received in time order and charted.
C3_Witness ==
    /\ Ok(chartData)
    /\ LabelsDistinct
    /\ ReceivedInTimeOrder
    /\ \E i, j \in DOMAIN pricePoints :
          /\ i < j
          /\ pricePoints[i].sneaker_id = pricePoints[j].sneaker_id
          /\ Listed(pricePoints[i].sneaker_id)
          /\ DayOf(pricePoints[i]) = DayOf(pricePoints[j])
          /\ InstantOf(pricePoints[i]) < InstantOf(pricePoints[j])
          /\ pricePoints[i].price # pricePoints[j].price
    /\ chartData.value # <<>>

\* C4: day bucketing: each sample falls into exactly one row, the row dated UTC midnight of
\* the calendar date of its timestamp, so two samples share a row if and only if their
\* timestamps have the same UTC date; every row is dated midnight of a sample's date, and a
\* listed sneaker's sample puts that sneaker's key into the row of its date.
C4_DayBucketing ==
    Ok(chartData) /\ sneakers # <<>> =>
        LET rows == chartData.value
            RowsOf(p) == {r \in DOMAIN rows : rows[r].timestamp = Midnight(DayOf(p))}
        IN  /\ \A p \in Range(pricePoints) : Cardinality(RowsOf(p)) = 1
            /\ \A p, q \in Range(pricePoints) : (RowsOf(p) = RowsOf(q)) <=> (DayOf(p) = DayOf(q))
            /\ \A r \in DOMAIN rows : \E p \in Range(pricePoints) : r \in RowsOf(p)
            /\ \A p \in Range(pricePoints) : \A s \in Range(sneakers) :
                  s.sneaker_id = p.sneaker_id =>
                      \A r \in RowsOf(p) : MapHas(rows[r].series, SeriesKey(s))

\* C4 witness: samples of one listed sneaker at 02:00Z and 23:00Z of a day and at 00:00Z of
\* the next: two rows, the first dated midnight of the first day.
C4_Witness ==
    /\ Ok(chartData)
    /\ \E i, j, k \in DOMAIN pricePoints :
          /\ pricePoints[i].timestamp = Iso(0, 2 * MsPerHour)
          /\ pricePoints[j].timestamp = Iso(0, 23 * MsPerHour)
          /\ pricePoints[k].timestamp = Iso(1, 0)
          /\ pricePoints[i].sneaker_id = pricePoints[j].sneaker_id
          /\ pricePoints[i].sneaker_id = pricePoints[k].sneaker_id
          /\ Listed(pricePoints[i].sneaker_id)
    /\ Len(chartData.value) = 2
    /\ chartData.value[1].timestamp = Midnight(0)
    /\ chartData.value[2].timestamp = Midnight(1)

\* C5: transformPriceData and useChartData return the empty list whenever the sample list
\* or the entity list is empty.
C5_EmptyInputLaws ==
    pricePoints = <<>> \/ sneakers = <<>> =>
        /\ chartData.called => chartData = Returned(<<>>)
        /\ hookData.called => hookData = Returned(<<>>)

\* C5 witness: both were called with samples and no entity.
C5_Witness ==
    /\ chartData.called
    /\ hookData.called
    /\ sneakers = <<>>
    /\ pricePoints # <<>>

\* The samples of the listed sneakers, in the order received.
ListedPoints == SelectSeq(pricePoints, LAMBDA p : Listed(p.sneaker_id))

\* C6: a sample of an unlisted sneaker raises no error and contributes no series key:
\* every key is a listed sneaker's label, the rows that chart a price are the rows the
\* listed sneakers' samples alone give, and every other row has no key.
C6_MissingEntityDrop ==
    chartData.called =>
        /\ ~chartData.threw
        /\ LET rows == chartData.value
               alone == transformPriceData(ListedPoints, sneakers).value
           IN  /\ \A r \in DOMAIN rows : \A k \in MapKeys(rows[r].series) :
                     \E s \in Range(sneakers) : SeriesKey(s) = k
               /\ \A a \in DOMAIN alone : \E r \in DOMAIN rows : rows[r] = alone[a]
               /\ \A r \in DOMAIN rows :
                     rows[r].series # <<>> => \E a \in DOMAIN alone : alone[a] = rows[r]

\* C6 witness: a sample of an unlisted sneaker and a sample of a listed one on the same
\* day, and a row that charts a price.
C6_Witness ==
    /\ Ok(chartData)
    /\ \E i, j \in DOMAIN pricePoints :
          /\ ~Listed(pricePoints[i].sneaker_id)
          /\ Listed(pricePoints[j].sneaker_id)
          /\ DayOf(pricePoints[i]) = DayOf(pricePoints[j])
    /\ \E r \in DOMAIN chartData.value : chartData.value[r].series # <<>>

\* C7: a key is in a row only if a listed sneaker with that label has a sample on the row's
\* day, and the value under it is the price of such a sample: nothing is interpolated or
\* carried forward, and a sneaker without samples has no key.
C7_KeysOnlyWhereSampled ==
    Ok(chartData) =>
        \A r \in DOMAIN chartData.value :
            \A k \in MapKeys(chartData.value[r].series) :
                \E s \in Range(sneakers) : \E i \in DOMAIN pricePoints :
                    /\ SeriesKey(s) = k
                    /\ pricePoints[i].sneaker_id = s.sneaker_id
                    /\ Midnight(DayOf(pricePoints[i])) = chartData.value[r].timestamp
                    /\ pricePoints[i].price = MapGet(chartData.value[r].series, k)

\* C7 witness: two listed sneakers with different labels, one sampled on the first day only
\* and the other on the second day only; the second row has one key.
C7_Witness ==
    /\ Ok(chartData)
    /\ LabelsDistinct
    /\ Len(sneakers) = 2
    /\ Len(chartData.value) = 2
    /\ \A r \in DOMAIN chartData.value : Len(chartData.value[r].series) = 1
    /\ chartData.value[1].series[1].key # chartData.value[2].series[1].key

\* C8: with a non-empty entity list there is exactly one row per distinct UTC day among the
\* samples, also for a day whose samples all belong to unlisted sneakers.
C8_OneRowPerDay ==
    Ok(chartData) /\ sneakers # <<>> =>
        /\ Len(chartData.value) = Cardinality(SampleDays)
        /\ {chartData.value[r].timestamp : r \in DOMAIN chartData.value}
              = {Midnight(day) : day \in SampleDays}

\* C8 witness: a day with samples of unlisted sneakers only, another with a listed
\* sneaker's sample, and two rows, one without a key.
C8_Witness ==
    /\ Ok(chartData)
    /\ sneakers # <<>>
    /\ \E day \in SampleDays : \A p \in Range(pricePoints) : DayOf(p) = day => ~Listed(p.sneaker_id)
    /\ \E p \in Range(pricePoints) : Listed(p.sneaker_id)
    /\ Len(chartData.value) = 2
    /\ \E r \in DOMAIN chartData.value : chartData.value[r].series = <<>>

---------------------------------------------------------------------------
(* Claims about calculateStats, under SpecStats *)

\* The places in the sample list of the samples of the sneaker calculateStats is given.
OwnSamples == {i \in DOMAIN pricePoints : pricePoints[i].sneaker_id = sneaker.sneaker_id}

RECURSIVE PriceSum(_)
PriceSum(places) ==
    IF places = {} THEN 0
    ELSE LET i == CHOOSE x \in places : TRUE
         IN  pricePoints[i].price + PriceSum(places \ {i})

\* C9: zero-sample fallback: when no sample has the sneaker's id, current, retail, min, max
\* and average price are the sneaker's retail price and both change fields are 0, also when
\* the list holds samples of other sneakers.
C9_ZeroSampleFallback ==
    stats.called /\ OwnSamples = {} =>
        /\ ~stats.threw
        /\ stats.value.current_price = sneaker.price
        /\ stats.value.retail_price = sneaker.price
        /\ stats.value.min_price = sneaker.price
        /\ stats.value.max_price = sneaker.price
        /\ stats.value.avg_price = Finite(sneaker.price, 1)
        /\ stats.value.price_change = 0
        /\ stats.value.price_change_percent = Finite(0, 1)

\* C9 witness: stats of a sneaker of retail price 120 over samples of another sneaker only.
C9_Witness ==
    /\ stats.called
    /\ OwnSamples = {}
    /\ pricePoints # <<>>
    /\ sneaker.price = 120
    /\ stats.value.avg_price = Finite(120, 1)

C11_CurrentPriceIsLastReceived ==
    stats.called /\ OwnSamples # {} =>
        /\ ~stats.threw
        /\ stats.value.current_price = pricePoints[SetMax(OwnSamples)].price

\* C11 witness: the sneaker's later sample comes first in the list at another price, and
\* current_price is the price of the earlier sample, which is last in the list.
C11_Witness ==
    /\ Ok(stats)
    /\ \E i, j \in OwnSamples :
          /\ i < j
          /\ j = SetMax(OwnSamples)
          /\ \A k \in OwnSamples : InstantOf(pricePoints[k]) <= InstantOf(pricePoints[i])
          /\ InstantOf(pricePoints[j]) < InstantOf(pricePoints[i])
          /\ pricePoints[i].price # pricePoints[j].price
          /\ stats.value.current_price = pricePoints[j].price

\* C12: with a retail price of 0 and at least one sample of the sneaker, calculateStats
\* signals the percentage as unavailable: it neither returns Infinity, -Infinity nor NaN
\* as price_change_percent.
C12_ZeroRetailPriceSignalled ==
    Ok(stats) /\ sneaker.price = 0 /\ OwnSamples # {} =>
        stats.value.price_change_percent.kind \notin {"Infinity", "-Infinity", "NaN"}

\* Samples of other sneakers: the drawn samples whose sneaker_id is not the sneaker's.
OtherSamples == {q \in StatPoints : q.sneaker_id # sneaker.sneaker_id}

\* The list with q put in after its first n samples.
WithSample(points, n, q) == SubSeq(points, 1, n) \o <<q>> \o SubSeq(points, n + 1, Len(points))

\* C16: calculateStats depends only on the samples whose sneaker_id is the sneaker's: the
\* result is the result for the list with every other sample removed, and altering any
\* sample of another sneaker, or adding one anywhere in the list, leaves the result as it is.
C16_OnlyOwnSamplesCount ==
    stats.called =>
        /\ stats = calculateStats(sneaker, SelectSeq(pricePoints, LAMBDA p : p.sneaker_id = sneaker.sneaker_id))
        /\ \A i \in DOMAIN pricePoints \ OwnSamples : \A q \in OtherSamples :
              stats = calculateStats(sneaker, [pricePoints EXCEPT ![i] = q])
        /\ \A n \in 0..Len(pricePoints) : \A q \in OtherSamples :
              stats = calculateStats(sneaker, WithSample(pricePoints, n, q))

\* C16 witness: the sneaker's samples at 100 and 120 with a sample of another sneaker at 140
\* received last; the statistics show none of the 140.
C16_Witness ==
    /\ Ok(stats)
    /\ Len(pricePoints) = 3
    /\ OwnSamples = {1, 2}
    /\ pricePoints[1].price = 100
    /\ pricePoints[2].price = 120
    /\ pricePoints[3].price = 140
    /\ stats.value.current_price = 120
    /\ stats.value.max_price = 120

---------------------------------------------------------------------------
(* Claims about the optional fields, under SpecOptional *)

\* The column's value, or the fallback when the column is NULL or holds no text.
OwnOr(optional, fallback) == IF optional \in {<<>>, <<"">>} THEN fallback ELSE optional[1]

\* C17: with or without samples of the sneaker, the statistics' release_date is 'Unknown'
\* when the sneaker has no release date, available_sizes is 'N/A' when it has no sizes and
\* ratings is 0 when it has no rating; otherwise each is the sneaker's own value.
C17_OptionalFieldDefaults ==
    stats.called =>
        /\ ~stats.threw
        /\ stats.value.release_date = OwnOr(sneaker.release_date, "Unknown")
        /\ stats.value.available_sizes = OwnOr(sneaker.available_sizes, "N/A")
        /\ stats.value.ratings = IF sneaker.ratings = <<>> THEN 0 ELSE sneaker.ratings[1]

\* C17 witness: statistics over one sample of a sneaker with sizes and a rating of 5 but
\* no release date.
C17_Witness ==
    /\ Ok(stats)
    /\ Cardinality(OwnSamples) = 1
    /\ sneaker.release_date = <<>>
    /\ stats.value.release_date = "Unknown"
    /\ stats.value.available_sizes = "8,9,10"
    /\ stats.value.ratings = 5

---------------------------------------------------------------------------
(* Claims about the helpers together, under SpecAll *)

\* C13: neither transformPriceData (alone or through useChartData) nor calculateStats
\* throws, whatever the input: empty lists, unlisted sneakers, a zero retail price, samples
\* out of time order, a timestamp that does not parse.
C13_NeverThrows ==
    /\ chartData.called => ~chartData.threw
    /\ hookData.called => ~hookData.threw
    /\ stats.called => ~stats.threw

---------------------------------------------------------------------------
(* Claims about PriceChart, under SpecRender *)

\* C20: PriceChart draws a line for every series label that occurs in any row of the
\* chart data it is given, a label that the earliest row does not hold included.
C20_LineForEverySeries ==
    chartView.view = "chart" =>
        \A r \in DOMAIN hookData.value : \A k \in MapKeys(hookData.value[r].series) :
            \E l \in DOMAIN chartView.lines : chartView.lines[l].dataKey = k

---------------------------------------------------------------------------
(* Claims about the selection, under SpecSelect *)

\* C18: after any sequence of select, remove and clear operations made through
\* SneakerSelect at most 5 sneakers are selected, each once: with 5 selected no option can
\* be picked.
C18_AtMostFiveSelected ==
    /\ Len(selectedSneakers) <= MAX_SELECTED_SNEAKERS
    /\ Cardinality(Range(selectedSneakers)) = Len(selectedSneakers)

\* C18 witness: five sneakers are selected, sneaker 1 last (so it was removed and picked
\* again, or the sixth was), and one more is on offer.
C18_Witness ==
    /\ Len(selectedSneakers) = 5
    /\ selectedSneakers[5] = 1
    /\ OptionValues(fetchedSneakers) \ Range(selectedSneakers) # {}

---------------------------------------------------------------------------
(* Claims about the App, under SpecApp *)

\* C19: a price-history request is issued only for the current selection and only when it
\* is not empty; in every state where the selection is empty usePriceHistory returns the
\* empty list and the chart data is empty.
C19_NoFetchWithoutSelection ==
    /\ [](selectedSneakers = <<>> =>
            /\ AppPriceHistory = <<>>
            /\ AppChartData = Returned(<<>>))
    /\ [][\A sneakerIds \in priceInFlight' \ priceInFlight :
            selectedSneakers # <<>> /\ sneakerIds = selectedSneakers]_vars

\* C19 witness: the selection was cleared after the price history of sneakers 1 and 2
\* arrived and while a request for sneaker 2 alone is in flight; the chart data is empty.
C19_Witness ==
    /\ selectedSneakers = <<>>
    /\ <<1, 2>> \in DOMAIN priceCache
    /\ priceCache[<<1, 2>>] # <<>>
    /\ <<2>> \in priceInFlight
    /\ fetchedSneakers = AppCatalog
    /\ AppChartData = Returned(<<>>)

\* C21: in every state of the App, whatever the order of selection changes, sneaker-list
\* responses and price-history responses, each series key of the chart data is the label
\* of a sneaker that is selected and in the fetched list, and its value is the price of a
\* sample of that sneaker in the price history of the current selection: no sample of a
\* deselected sneaker is charted.
C21_OnlySelectedSneakersCharted ==
    /\ ~AppChartData.threw
    /\ \A r \in DOMAIN AppChartData.value : \A e \in Range(AppChartData.value[r].series) :
          \E s \in Range(fetchedSneakers) :
              /\ s.sneaker_id \in Range(selectedSneakers)
              /\ SeriesKey(s) = e.key
              /\ \E p \in Range(AppPriceHistory) :
                    p.sneaker_id = s.sneaker_id /\ p.price = e.value

\* C21 witness: sneakers 1 and 2 were selected and their history arrived, then sneaker 2
\* was deselected and the response for sneaker 1 alone holds a sample of sneaker 2 as well;
\* the chart has rows.
C21_Witness ==
    /\ selectedSneakers = <<1>>
    /\ fetchedSneakers = AppCatalog
    /\ <<1, 2>> \in DOMAIN priceCache
    /\ priceCache[<<1, 2>>] = PriceTable
    /\ <<1>> \in DOMAIN priceCache
    /\ priceCache[<<1>>] = PriceTable
    /\ Len(AppChartData.value) = 2

---------------------------------------------------------------------------
(* Claims about handleInitialize, under SpecInitialize *)

\* C22: every run of handleInitialize ends, and ends with isInitializing false, whether
\* initializeData succeeds or fails; the message is empty from the click until the request
\* settles, then the 'initialized successfully' text on success and the 'Failed to
\* initialize' text on failure.
C22_InitializeRunEnds ==
    /\ [](/\ initPending > 0 => isInitializing /\ initMessage = ""
          /\ initPending = 0 => ~isInitializing
          /\ initPending = 0 /\ initOutcome = "fulfilled" => initMessage = InitSucceededMessage
          /\ initPending = 0 /\ initOutcome = "rejected" => initMessage = InitFailedMessage)
    /\ (isInitializing ~> ~isInitializing)

\* C22 witness: a run has failed: the flag is down and the failure text is shown.
C22_Witness ==
    /\ initOutcome = "rejected"
    /\ initPending = 0
    /\ ~isInitializing
    /\ initMessage = InitFailedMessage

\* C23: at most one initialisation request is in flight at any time, and while one is,
\* isInitializing is true (which disables the Initialize Data button).
C23_OneInitializationInFlight ==
    /\ initPending <= 1
    /\ initPending = 1 => isInitializing

\* C23 witness: a request is in flight while the user has gone on to select two sneakers.
C23_Witness ==
    /\ initPending = 1
    /\ isInitializing
    /\ Len(selectedSneakers) = 2

---------------------------------------------------------------------------
(* Further claims about transformPriceData, under Spec *)

\* The listed sneakers with a sample on the UTC day of a row.
SampledOnDayOf(row) ==
    {s \in Range(sneakers) : SamplesOn(s, row.timestamp.time \div MsPerDay) # {}}

\* C24: distinct sneakers of the list get distinct series in a row: each row has as many
\* series keys as there are listed sneakers with a sample on its day, also when two listed
\* sneakers have the same name and colorway.
C24_DistinctEntitiesDistinctSeries ==
    Ok(chartData) =>
        \A r \in DOMAIN chartData.value :
            Cardinality(MapKeys(chartData.value[r].series))
                = Cardinality(SampledOnDayOf(chartData.value[r]))

\* The sample list in every order.
Reorderings(points) ==
    {[i \in DOMAIN points |-> points[f[i]]] : f \in Permutations(DOMAIN points)}

\* Rows without the order in which the keys of a row were set: two row lists with the
\* same RowContents are deep-equal.
RowContents(rows) ==
    [r \in DOMAIN rows |->
        [timestamp |-> rows[r].timestamp,
         series |-> {<<e.key, e.value>> : e \in Range(rows[r].series)}]]

\* No two samples of the list have the same sneaker_id and the same UTC day.
OneSamplePerSneakerAndDay ==
    \A i, j \in DOMAIN pricePoints :
        /\ pricePoints[i].sneaker_id = pricePoints[j].sneaker_id
        /\ DayOf(pricePoints[i]) = DayOf(pricePoints[j])
        => i = j

\* C26: when no two samples share sneaker id and UTC day, transformPriceData returns the
\* same rows, in the same order, with the same keys and prices, for every reordering of
\* the sample list.
C26_PermutationInvariant ==
    Ok(chartData) /\ OneSamplePerSneakerAndDay =>
        \A reordered \in Reorderings(pricePoints) :
            LET outcome == transformPriceData(reordered, sneakers)
            IN  /\ ~outcome.threw
                /\ RowContents(outcome.value) = RowContents(chartData.value)

---------------------------------------------------------------------------
(* Claims about the chart and the statistics together, under SpecAgree *)

\* The rows that hold a key for the sneaker's label.
RowsCharting(rows, s) == {r \in DOMAIN rows : MapHas(rows[r].series, SeriesKey(s))}

\* C25: for a listed sneaker with one or more samples, current_price of calculateStats is
\* the value charted for the sneaker on the day of its last received sample, and when the
\* samples were received in ascending time order it is the value under the sneaker's label
\* in the latest row that has that label.
C25_ChartAndStatsAgree ==
    Ok(chartData) /\ Ok(stats) /\ OwnSamples # {} =>
        /\ ChartedOn(chartData.value, DayOf(pricePoints[SetMax(OwnSamples)]), sneaker,
                     stats.value.current_price)
        /\ ReceivedInTimeOrder =>
              /\ RowsCharting(chartData.value, sneaker) # {}
              /\ Charts(chartData.value[SetMax(RowsCharting(chartData.value, sneaker))],
                        sneaker, stats.value.current_price)

---------------------------------------------------------------------------
(* Claims about calculateStats on prices with cents, under SpecDouble *)

\* C27: for every sneaker and sample list the statistics satisfy
\* min_price <= avg_price <= max_price and min_price <= current_price <= max_price, and
\* price_change and price_change_percent have the same sign when the retail price is
\* positive.
C27_StatsOrdered ==
    Ok(stats) =>
        LET v == stats.value
        IN  /\ ~DoubleLess(v.avg_price, v.min_price)
            /\ ~DoubleLess(v.max_price, v.avg_price)
            /\ ~DoubleLess(v.current_price, v.min_price)
            /\ ~DoubleLess(v.max_price, v.current_price)
            /\ DoubleSign(v.retail_price) = 1 =>
                  /\ v.price_change_percent.kind = "finite"
                  /\ DoubleSign(v.price_change) = DoubleSign(v.price_change_percent)

---------------------------------------------------------------------------
(* Claims about getChartColor, under SpecColor *)

\* C28: for every non-negative index getChartColor returns one of the eight palette
\* colours, it returns the same colour for the index eight further on, and the indexes
\* 0 to 7 get eight distinct colours.
C28_ColorsRepeatEveryEight ==
    color # "" =>
        /\ color \in Range(CHART_COLORS)
        /\ Cardinality(Range(CHART_COLORS)) = 8
        /\ getChartColor(colorIndex + 8) = color
        /\ Cardinality({getChartColor(i) : i \in 0..7}) = 8

\* C28 witness: index 13, past the end of the palette, gets the pink of index 5
C28_Witness ==
    /\ colorIndex = 13
    /\ color = "#ec4899"
    /\ getChartColor(5) = color

====
